---- MODULE Spec2Model ----
(***************************************************************************)
(* TailSSH frontend (src/public/app.js): the tab registry, the per-tab SSH *)
(* session lifecycle, the username modal and the IPN state notifications.  *)
(*                                                                         *)
(* Tab objects are JavaScript references: closures (card click handlers,   *)
(* session callbacks, suspended openSession calls) keep a tab object alive *)
(* after it has left the tabs array.  `heap` therefore holds every tab     *)
(* object ever created, indexed by its id, and `tabs`, `tabList` and       *)
(* `paneHost` are sequences of ids.  A session handle is an index into     *)
(* `sessions` (0 is null).                                                 *)
(*                                                                         *)
(* Each handler of the program is one action.  The handlers are written as *)
(* functions from a state record to a state record so that a handler that  *)
(* calls another one (closeTab -> createTab -> activateTab -> loadPicker)  *)
(* is the composition of their translations.                               *)
(***************************************************************************)
EXTENDS Integers, Sequences, FiniteSets, TLC

\* ---- bounds ------------------------------------------------------------
MaxTabId == 3        \* createTab is disabled once tabIdSeq reaches it
MaxSessions == 3     \* runSSHSession is disabled once that many were opened
MaxSessionTabs == 2  \* SpecSessions creates no more tabs than that
MaxLogins == 2       \* the login timer does not fire once ipn.login() ran that often
MaxDevices == 3      \* the directory answers with no more device records than that

\* ---- value sets --------------------------------------------------------
IpnStates == {"NoState", "InUseOtherUser", "NeedsLogin", "NeedsMachineAuth",
              "Stopped", "Starting", "Running"}

Devices == {"d1"}

\* what the user may have in usernameInput when confirming: a string is a
\* sequence of characters, " " is white space
Inputs == { <<>>, <<" ">>, <<"r">>, <<" ", "r", " ">> }

NoUser == <<>>

\* tab labels: "New tab", or `${user}@${displayName}`
NewTabLabel == [user |-> NoUser, host |-> "New tab"]

SessionLabel(user, displayName) == [user |-> user, host |-> displayName]

VARIABLES
    tabIdSeq,       \* app.js:40
    tabs,           \* app.js:42   sequence of tab ids (the array)
    activeTabId,    \* app.js:43   0 is null
    globalIpn,      \* app.js:45   FALSE is null
    heap,           \* tab objects: [session, label, pane, active]
    tabList,        \* app.js:28   children of #tab-list, in DOM order
    paneHost,       \* app.js:30   children of #pane-host, in DOM order
    modalBusy,      \* app.js:126
    modalHidden,    \* usernameModal.classList contains "hidden"
    prompts,        \* suspended openSession calls whose modal listeners are attached
    stored,         \* localStorage: device key -> username (NoUser if absent)
    dragSrcId,      \* app.js:316  0 is null
    sessions,       \* one record per runSSHSession call: [tab, user, closed, ended, attached, threw]
    tsStatus,       \* state last given to setStatus
    loadingHidden,  \* loadingOverlay.classList contains "hidden"
    loadingText,    \* loadingText.textContent
    loginTimer,     \* app.js:689  FALSE is null
    buttonsWired,   \* app.js:690
    newTabHandlers, \* number of click listeners on newTabBtn
    ipnEverRan,     \* app.js:704
    timers,         \* number of armed setTimeout callbacks of scheduleLogin
    logins,         \* number of ipn.login() calls made so far
    directory,      \* part_000:74  data.devices as the Tailscale API returned them
    response,       \* part_000:101 the array handleDevices answers with
    grid,           \* app.js:399   the device cards in the picker's grid, in order
    fetched         \* how far the request for /api/devices has come

vars == << tabIdSeq, tabs, activeTabId, globalIpn, heap, tabList, paneHost,
           modalBusy, modalHidden, prompts, stored, dragSrcId, sessions,
           tsStatus, loadingHidden, loadingText, loginTimer, buttonsWired,
           newTabHandlers, ipnEverRan, timers, logins,
           directory, response, grid, fetched >>

\* the state of the frontend proper
appVars == << tabIdSeq, tabs, activeTabId, globalIpn, heap, tabList, paneHost,
              modalBusy, modalHidden, prompts, stored, dragSrcId, sessions,
              tsStatus, loadingHidden, loadingText, loginTimer, buttonsWired,
              newTabHandlers, ipnEverRan, timers, logins >>

\* the state of one request for the device list
pickerVars == << directory, response, grid, fetched >>

\* ---- sequence helpers ---------------------------------------------------
Range(s) == { s[i] : i \in 1..Len(s) }

\* Array.prototype.findIndex, 1-based; 0 stands for -1
IndexOf(s, x) == IF x \in Range(s) THEN CHOOSE i \in 1..Len(s) : s[i] = x ELSE 0

\* s.splice(i, 1) with 1-based i
RemoveAt(s, i) == SubSeq(s, 1, i - 1) \o SubSeq(s, i + 1, Len(s))

\* s.splice(i, 0, x) with 1-based i: x ends up at index i (or at the end)
InsertAt(s, i, x) ==
    IF i > Len(s) THEN Append(s, x)
    ELSE SubSeq(s, 1, i - 1) \o <<x>> \o SubSeq(s, i, Len(s))

\* Node.remove(): detach an element from its parent's child list
Detach(s, x) == SelectSeq(s, LAMBDA y : y # x)

\* parent.insertBefore(x, ref): x is first detached, then placed before ref
InsertBefore(s, x, ref) ==
    LET d == Detach(s, x)
        k == IndexOf(d, ref)
    IN  IF k = 0 THEN Append(d, x) ELSE InsertAt(d, k, x)

\* String.prototype.trim on a sequence of characters
RECURSIVE TrimLeft(_)
TrimLeft(v) == IF v # <<>> /\ Head(v) = " " THEN TrimLeft(Tail(v)) ELSE v

RECURSIVE TrimRight(_)
TrimRight(v) ==
    IF v # <<>> /\ v[Len(v)] = " " THEN TrimRight(SubSeq(v, 1, Len(v) - 1)) ELSE v

Trim(v) == TrimRight(TrimLeft(v))

\* ---- the state as a record ---------------------------------------------
Cur == [ tabIdSeq |-> tabIdSeq, tabs |-> tabs, activeTabId |-> activeTabId,
         globalIpn |-> globalIpn, heap |-> heap, tabList |-> tabList,
         paneHost |-> paneHost, modalBusy |-> modalBusy,
         modalHidden |-> modalHidden, prompts |-> prompts, stored |-> stored,
         dragSrcId |-> dragSrcId, sessions |-> sessions, tsStatus |-> tsStatus,
         loadingHidden |-> loadingHidden, loadingText |-> loadingText,
         loginTimer |-> loginTimer, buttonsWired |-> buttonsWired,
         newTabHandlers |-> newTabHandlers, ipnEverRan |-> ipnEverRan,
         timers |-> timers, logins |-> logins,
         closeThrows |-> FALSE, thrown |-> FALSE ]

\* the state at the start of a handler run during which the close() of the
\* session object that runSSHSession returned throws
CurThrowing == [Cur EXCEPT !.closeThrows = TRUE]

Becomes(s) ==
    /\ tabIdSeq' = s.tabIdSeq
    /\ tabs' = s.tabs
    /\ activeTabId' = s.activeTabId
    /\ globalIpn' = s.globalIpn
    /\ heap' = s.heap
    /\ tabList' = s.tabList
    /\ paneHost' = s.paneHost
    /\ modalBusy' = s.modalBusy
    /\ modalHidden' = s.modalHidden
    /\ prompts' = s.prompts
    /\ stored' = s.stored
    /\ dragSrcId' = s.dragSrcId
    /\ sessions' = s.sessions
    /\ tsStatus' = s.tsStatus
    /\ loadingHidden' = s.loadingHidden
    /\ loadingText' = s.loadingText
    /\ loginTimer' = s.loginTimer
    /\ buttonsWired' = s.buttonsWired
    /\ newTabHandlers' = s.newTabHandlers
    /\ ipnEverRan' = s.ipnEverRan
    /\ timers' = s.timers
    /\ logins' = s.logins
    /\ UNCHANGED pickerVars

\* ---- tab manager ---------------------------------------------------------

\* getTab(id) !== null
getTab(s, id) == id \in Range(s.tabs)

setTabLabel(s, id, label) ==
    IF ~getTab(s, id) THEN s
    ELSE [s EXCEPT !.heap[id].label = label]

showLoading(s, msg) == [s EXCEPT !.loadingHidden = FALSE, !.loadingText = msg]

hideLoading(s) == [s EXCEPT !.loadingHidden = TRUE]

\* Synchronous part of loadPicker: the label is reset and the pane shows a
\* fresh picker whose device grid says "Loading devices..."; the rest runs
\* when the fetch settles (FetchDone).
loadPicker(s, id) ==
    LET s1 == setTabLabel(s, id, NewTabLabel)
    IN  [s1 EXCEPT !.heap[id].pane = "loading"]

activateTab(s, id) ==
    [s EXCEPT !.activeTabId = id,
              !.heap = [t \in DOMAIN s.heap |->
                          IF t \in Range(s.tabs)
                          THEN [s.heap[t] EXCEPT !.active = (t = id)]
                          ELSE s.heap[t]]]

\* createTab that does not activate the tab it creates
createTab_NoActivate(s) ==
    LET id == s.tabIdSeq + 1
        tab == [session |-> 0, label |-> NewTabLabel, pane |-> "empty", active |-> FALSE]
        s1 == [s EXCEPT !.tabIdSeq = id,
                        !.tabList = Append(@, id),
                        !.paneHost = Append(@, id),
                        !.heap = [t \in DOMAIN s.heap \cup {id} |->
                                    IF t = id THEN tab ELSE s.heap[t]],
                        !.tabs = Append(@, id)]
    IN  loadPicker(s1, id)

createTab(s) ==
    LET id == s.tabIdSeq + 1
        tab == [session |-> 0, label |-> NewTabLabel, pane |-> "empty", active |-> FALSE]
        s1 == [s EXCEPT !.tabIdSeq = id,
                        !.tabList = Append(@, id),
                        !.paneHost = Append(@, id),
                        !.heap = [t \in DOMAIN s.heap \cup {id} |->
                                    IF t = id THEN tab ELSE s.heap[t]],
                        !.tabs = Append(@, id)]
    IN  loadPicker(activateTab(s1, id), id)

\* a try block whose exception goes on to the caller
caught_Rethrow(s) == s

\* try { ... } catch {} around a call that left s: the exception ends here
caught(s) == [s EXCEPT !.thrown = FALSE]

\* session?.close?.(): the close of the object runSSHSession returned; threw
\* records that it has thrown, thrown is the exception on its way up
underlyingClose(s, sid) ==
    [s EXCEPT !.sessions[sid].threw = s.closeThrows, !.thrown = s.closeThrows]

\* tab.session = { close() { closed = true; try { session?.close?.() } catch {} } }
\* attached records where the tab was at the moment close() ran: still in the
\* tabs array, in #tab-list and in #pane-host.
sessionClose(s, id) ==
    LET sid == s.heap[id].session
        s1  == [s EXCEPT !.sessions[sid].closed = TRUE,
                         !.sessions[sid].attached =
                             /\ id \in Range(s.tabs)
                             /\ id \in Range(s.tabList)
                             /\ id \in Range(s.paneHost)]
    IN  caught(underlyingClose(s1, sid))

\* if (tab.session) { try { tab.session.close(); } catch {}  tab.session = null; }
\* A handler that is left by an exception stops where it is (s.thrown).
closeSessionOf(s, id) ==
    IF s.heap[id].session = 0 THEN s
    ELSE LET s1 == caught(sessionClose(s, id))
         IN  IF s1.thrown THEN s1 ELSE [s1 EXCEPT !.heap[id].session = 0]

removeTabEls(s, id) ==
    [s EXCEPT !.tabList = Detach(@, id), !.paneHost = Detach(@, id)]

\* closeTab with the session closed after the tab has been taken out
closeTab_RemoveFirst(s, id) ==
    IF ~getTab(s, id) THEN s
    ELSE
      LET s1 == removeTabEls(s, id)
          idx == IndexOf(s1.tabs, id)
          s2 == [s1 EXCEPT !.tabs = RemoveAt(@, idx)]
          s3 == closeSessionOf(s2, id)
      IN  IF Len(s3.tabs) = 0
          THEN IF s3.globalIpn THEN createTab(s3) ELSE s3
          ELSE IF s3.activeTabId = id
               THEN activateTab(s3, s3.tabs[IF idx < Len(s3.tabs) THEN idx ELSE Len(s3.tabs)])
               ELSE s3

\* closeTab activating the first remaining tab
closeTab_ActivateFirst(s, id) ==
    IF ~getTab(s, id) THEN s
    ELSE
      LET s1 == closeSessionOf(s, id)
          s2 == removeTabEls(s1, id)
          idx == IndexOf(s2.tabs, id)
          s3 == [s2 EXCEPT !.tabs = RemoveAt(@, idx)]
      IN  IF Len(s3.tabs) = 0
          THEN IF s3.globalIpn THEN createTab(s3) ELSE s3
          ELSE IF s3.activeTabId = id
               THEN activateTab(s3, s3.tabs[1])
               ELSE s3

closeTab(s, id) ==
    IF ~getTab(s, id) THEN s
    ELSE
      LET s1 == closeSessionOf(s, id)
          s2 == removeTabEls(s1, id)
          idx == IndexOf(s2.tabs, id)
          s3 == [s2 EXCEPT !.tabs = RemoveAt(@, idx)]
      IN  IF s1.thrown THEN s1
          ELSE IF Len(s3.tabs) = 0
          THEN IF s3.globalIpn THEN createTab(s3) ELSE s3
          ELSE IF s3.activeTabId = id
               THEN activateTab(s3, s3.tabs[IF idx < Len(s3.tabs) THEN idx ELSE Len(s3.tabs)])
               ELSE s3

RECURSIVE clearLoop(_, _)
clearLoop(s, todo) ==
    IF todo = <<>> THEN s
    ELSE LET s1 == closeSessionOf(s, Head(todo))
         IN  IF s1.thrown THEN s1
             ELSE clearLoop(removeTabEls(s1, Head(todo)), Tail(todo))

\* clearAllTabs that also restarts the id sequence
clearAllTabs_ResetSeq(s) ==
    [clearLoop(s, s.tabs) EXCEPT !.tabs = <<>>, !.activeTabId = 0, !.tabIdSeq = 0]

\* clearAllTabs followed by closeTab's replacement policy
clearAllTabs_Replace(s) ==
    LET s1 == [clearLoop(s, s.tabs) EXCEPT !.tabs = <<>>, !.activeTabId = 0]
    IN  IF s1.globalIpn THEN createTab(s1) ELSE s1

clearAllTabs(s) ==
    LET s1 == clearLoop(s, s.tabs)
    IN  IF s1.thrown THEN s1 ELSE [s1 EXCEPT !.tabs = <<>>, !.activeTabId = 0]

\* ---- drag-and-drop reorder ----------------------------------------------
onDragStart(s, id) == [s EXCEPT !.dragSrcId = id]

\* onDrop placing the source in the array just before the destination
onDrop_BeforeDest(s, targetId) ==
    IF s.dragSrcId = 0 \/ s.dragSrcId = targetId THEN s
    ELSE
      LET srcIdx == IndexOf(s.tabs, s.dragSrcId)
          dstIdx == IndexOf(s.tabs, targetId)
      IN  IF srcIdx = 0 \/ dstIdx = 0 THEN s
          ELSE
            LET dstTabEl == s.tabs[dstIdx]
                srcTab == s.tabs[srcIdx]
            IN  [s EXCEPT !.tabs = InsertBefore(@, srcTab, dstTabEl),
                          !.tabList = InsertBefore(@, srcTab, dstTabEl)]

onDrop(s, targetId) ==
    IF s.dragSrcId = 0 \/ s.dragSrcId = targetId THEN s
    ELSE
      LET srcIdx == IndexOf(s.tabs, s.dragSrcId)
          dstIdx == IndexOf(s.tabs, targetId)
      IN  IF srcIdx = 0 \/ dstIdx = 0 THEN s
          ELSE
            LET dstTabEl == s.tabs[dstIdx]
                srcTab == s.tabs[srcIdx]
            IN  [s EXCEPT !.tabs = InsertAt(RemoveAt(@, srcIdx), dstIdx, srcTab),
                          !.tabList = InsertBefore(@, srcTab, dstTabEl)]

onDragEnd(s) == [s EXCEPT !.dragSrcId = 0]

\* ---- username modal -------------------------------------------------------

\* promptUsername without the modalBusy gate
promptUsername_NoGate(s, id, dev) ==
    [s EXCEPT !.modalBusy = TRUE,
              !.modalHidden = FALSE,
              !.prompts = Append(@, [tab |-> id, dev |-> dev])]

\* if (modalBusy) return Promise.resolve(null);
\* otherwise the gate is taken, the modal is shown and the click/key listeners
\* of this call are attached; the returned promise stays pending.
promptUsername(s, id, dev) ==
    IF s.modalBusy THEN s
    ELSE [s EXCEPT !.modalBusy = TRUE,
                   !.modalHidden = FALSE,
                   !.prompts = Append(@, [tab |-> id, dev |-> dev])]

\* cleanup that hides the modal and keeps the gate
cleanup_KeepGate(s, p) ==
    [s EXCEPT !.modalHidden = TRUE,
              !.prompts = SelectSeq(@, LAMBDA q : q # p)]

\* cleanup(result), lines 156-163, for the call whose listeners are p
cleanup(s, p) ==
    [s EXCEPT !.modalBusy = FALSE,
              !.modalHidden = TRUE,
              !.prompts = SelectSeq(@, LAMBDA q : q # p)]

\* ---- SSH session ----------------------------------------------------------

\* openSession without its guards
hasSession_Never(s, id) == FALSE

\* if (tab.session) return;      (lines 577 and 583)
hasSession(s, id) == s.heap[id].session # 0

\* onSessionEnd handing every tab of the registry back to its picker
onSessionEnd_AllTabs(s, id) ==
    [s EXCEPT !.heap = [t \in DOMAIN s.heap |->
                          IF t = id \/ t \in Range(s.tabs)
                          THEN [s.heap[t] EXCEPT !.session = 0, !.pane = "loading",
                                                 !.label = NewTabLabel]
                          ELSE s.heap[t]]]

onSessionEnd(s, id) ==
    loadPicker([s EXCEPT !.heap[id].session = 0, !.heap[id].pane = "empty"], id)

\* the callbacks without the test of the closed flag
sessionCallback_IgnoreClosed(s, sid) ==
    LET s1 == [s EXCEPT !.sessions[sid].ended = TRUE]
    IN  onSessionEnd(s1, s1.sessions[sid].tab)

\* onError / onDone of session sid:   if (!closed) onSessionEnd(tab, ipn);
sessionCallback(s, sid) ==
    LET s1 == [s EXCEPT !.sessions[sid].ended = TRUE]
    IN  IF s1.sessions[sid].closed THEN s1 ELSE onSessionEnd(s1, s1.sessions[sid].tab)

\* openSession up to its suspension point
openSession(s, id, dev) ==
    IF hasSession(s, id) THEN s ELSE promptUsername(s, id, dev)

\* openSession going on after a prompt that resolved null
afterPrompt_IgnoreCancel(s, id, dev, user, sync) ==
    IF hasSession(s, id) THEN s
    ELSE
      LET s1  == [s EXCEPT !.stored[dev] = user]
          s2  == setTabLabel(s1, id, SessionLabel(user, dev))
          s3  == [s2 EXCEPT !.heap[id].pane = "terminal"]
          sid == Len(s3.sessions) + 1
          s4  == [s3 EXCEPT !.sessions =
                     Append(@, [tab |-> id, user |-> user, closed |-> FALSE,
                                ended |-> FALSE, attached |-> FALSE,
                                threw |-> FALSE])]
          s5  == IF sync THEN sessionCallback(s4, sid) ELSE s4
      IN  [s5 EXCEPT !.heap[id].session = sid]

\* openSession from `if (!user) return` to its end.  sync: runSSHSession
\* delivers onError/onDone before it returns.
afterPrompt(s, id, dev, user, sync) ==
    IF user = NoUser THEN s
    ELSE IF hasSession(s, id) THEN s
    ELSE
      LET s1  == [s EXCEPT !.stored[dev] = user]
          s2  == setTabLabel(s1, id, SessionLabel(user, dev))
          s3  == [s2 EXCEPT !.heap[id].pane = "terminal"]
          sid == Len(s3.sessions) + 1
          s4  == [s3 EXCEPT !.sessions =
                     Append(@, [tab |-> id, user |-> user, closed |-> FALSE,
                                ended |-> FALSE, attached |-> FALSE,
                                threw |-> FALSE])]
          s5  == IF sync THEN sessionCallback(s4, sid) ELSE s4
      IN  [s5 EXCEPT !.heap[id].session = sid]

\* the continuations of the calls resolved by one click run in the order in
\* which their promises were resolved
RECURSIVE resumeAll(_, _, _, _)
resumeAll(s, ps, user, sync) ==
    IF ps = <<>> THEN s
    ELSE resumeAll(afterPrompt(s, Head(ps).tab, Head(ps).dev, user, sync),
                   Tail(ps), user, sync)

RECURSIVE cleanupAll(_, _)
cleanupAll(s, ps) ==
    IF ps = <<>> THEN s ELSE cleanupAll(cleanup(s, Head(ps)), Tail(ps))

\* onConnect resolving with whatever the input holds
onConnect_NoCheck(s, v, sync) ==
    LET val == Trim(v)
        ps  == s.prompts
    IN  resumeAll(cleanupAll(s, ps), ps, val, sync)

\* onConnect (click on Connect, or Enter): every attached listener runs
onConnect(s, v, sync) ==
    LET val == Trim(v)
        ps  == s.prompts
    IN  IF val = NoUser THEN s
        ELSE resumeAll(cleanupAll(s, ps), ps, val, sync)

\* onCancel (click on Cancel, or Escape)
onCancel(s) ==
    LET ps == s.prompts
    IN  resumeAll(cleanupAll(s, ps), ps, NoUser, FALSE)

\* ---- IPN notifications ----------------------------------------------------

\* a pending timer that is left armed
clearLoginTimer_Keep(s) == s

\* if (loginTimer !== null) { clearTimeout(loginTimer); ... }
clearLoginTimer(s) ==
    IF s.loginTimer THEN [s EXCEPT !.timers = @ - 1] ELSE s

\* scheduleLogin that arms a timer without cancelling the pending one
scheduleLogin_NoClear(s) ==
    [s EXCEPT !.loginTimer = TRUE, !.timers = @ + 1]

scheduleLogin(s) ==
    [clearLoginTimer(s) EXCEPT !.loginTimer = TRUE, !.timers = @ + 1]

\* the timer callback of scheduleLogin: loginTimer = null; ipn.login()
loginTimerFired(s) ==
    [s EXCEPT !.loginTimer = FALSE, !.timers = @ - 1, !.logins = @ + 1]

setStatus(s, state) == [s EXCEPT !.tsStatus = state]

\* the Running case wiring the buttons on every notification
wireButtons_Always(s) ==
    [s EXCEPT !.buttonsWired = TRUE, !.globalIpn = TRUE, !.newTabHandlers = @ + 1]

\* if (!buttonsWired) { buttonsWired = true; globalIpn = ipn; addEventListener... }
wireButtons(s) ==
    IF ~s.buttonsWired
    THEN [s EXCEPT !.buttonsWired = TRUE, !.globalIpn = TRUE, !.newTabHandlers = @ + 1]
    ELSE s

\* the Running case opening a tab on every notification
openFirstTab_Always(s) == createTab(s)

\* if (tabs.length === 0) createTab(ipn);
openFirstTab(s) == IF Len(s.tabs) = 0 THEN createTab(s) ELSE s

\* the Stopped case surfacing the stop whether or not Running was seen
surfaceStop_Always(s) == showLoading(s, "stopped")

\* if (ipnEverRan) showLoading("Tailscale node stopped unexpectedly.");
surfaceStop(s) == IF s.ipnEverRan THEN showLoading(s, "stopped") ELSE s

notifyState(s, state) ==
    LET s0 == setStatus(s, state)
    IN  CASE state = "Running" ->
               LET s1 == hideLoading([clearLoginTimer(s0) EXCEPT !.loginTimer = FALSE,
                                                                 !.ipnEverRan = TRUE])
               IN  openFirstTab(wireButtons(s1))
          [] state \in {"NeedsLogin", "NeedsMachineAuth"} ->
               LET s1 == clearAllTabs(s0)
               IN  IF s1.thrown THEN s1 ELSE scheduleLogin(showLoading(s1, "auth"))
          [] state = "Stopped" ->
               LET s1 == clearAllTabs(s0)
               IN  IF s1.thrown THEN s1 ELSE surfaceStop(s1)
          [] OTHER -> s0

panicHandler(s) == clearAllTabs(showLoading(s, "crashed"))

notifyPanicRecover(s) ==
    LET s1 == clearAllTabs(s)
    IN  IF s1.thrown THEN s1 ELSE showLoading(s1, "panic")

\* click on newTabBtn: every registered listener calls createTab(ipn)
RECURSIVE newTabClick(_, _)
newTabClick(s, n) == IF n = 0 THEN s ELSE newTabClick(createTab(s), n - 1)

\* the rest of loadPicker once the fetch has returned devices: the grid shows
\* the device cards.  A fetch that fails or returns no device leaves a picker
\* without cards, which is the "loading" pane for ever.
fetchSettled(s, id) == [s EXCEPT !.heap[id].pane = "cards"]

\* ---- device list: worker and picker ----------------------------------------
\* A JavaScript string is a sequence of characters; a property that is not
\* there reads as undefined.
Undefined == [type |-> "undefined"]

Str(chars) == [type |-> "string", chars |-> chars]

\* the names the API may give: none, "", "a.t", "b.t"
Names == { Undefined, Str(<<>>), Str(<<"a", ".", "t">>), Str(<<"b", ".", "t">>) }

\* !d.name accepting the empty string
hasNoName_OnlyMissing(d) == d.name.type = "undefined"

\* !d.name
hasNoName(d) == d.name.type = "undefined" \/ d.name.chars = <<>>

\* str.split(".")[0]
RECURSIVE splitFirst(_)
splitFirst(chars) ==
    IF chars = <<>> \/ Head(chars) = "." THEN <<>>
    ELSE <<Head(chars)>> \o splitFirst(Tail(chars))

\* the flatMap callback of handleDevices; recent: lastSeen is less than ten
\* minutes old
trimDevice(d) ==
    IF hasNoName(d) THEN <<>>
    ELSE << [id |-> d.id, name |-> d.name.chars,
             displayName |-> splitFirst(d.name.chars),
             online |-> d.recent, sshEnabled |-> d.sshEnabled] >>

RECURSIVE handleDevices(_)
handleDevices(devs) ==
    IF devs = <<>> THEN <<>>
    ELSE trimDevice(Head(devs)) \o handleDevices(Tail(devs))

\* the rank of a character in localeCompare
CharRank(c) == CASE c = "." -> 0 [] c = "a" -> 1 [] c = "b" -> 2 [] OTHER -> 3

\* x.localeCompare(y): negative, zero or positive
RECURSIVE localeCompare(_, _)
localeCompare(x, y) ==
    CASE x = <<>> /\ y = <<>> -> 0
      [] x = <<>> -> -1
      [] y = <<>> -> 1
      [] CharRank(Head(x)) < CharRank(Head(y)) -> -1
      [] CharRank(Head(x)) > CharRank(Head(y)) -> 1
      [] OTHER -> localeCompare(Tail(x), Tail(y))

\* a.displayName || a.name || ""
sortKey(a) == IF a.displayName # <<>> THEN a.displayName ELSE a.name

\* the comparator of devices.sort, app.js:442-446
compareDevices(a, b) ==
    IF a.sshEnabled # b.sshEnabled THEN (IF a.sshEnabled THEN -1 ELSE 1)
    ELSE IF a.online # b.online THEN (IF a.online THEN -1 ELSE 1)
    ELSE localeCompare(sortKey(a), sortKey(b))

\* Array.prototype.sort is stable: x goes behind every element it does not
\* precede
RECURSIVE insertSorted(_, _)
insertSorted(s, x) ==
    IF s = <<>> THEN <<x>>
    ELSE IF compareDevices(x, s[Len(s)]) < 0
         THEN Append(insertSorted(SubSeq(s, 1, Len(s) - 1), x), s[Len(s)])
         ELSE Append(s, x)

RECURSIVE sortDevices(_)
sortDevices(s) ==
    IF s = <<>> THEN <<>>
    ELSE insertSorted(sortDevices(SubSeq(s, 1, Len(s) - 1)), s[Len(s)])

\* loadPicker from `if (!devices.length)` on: without devices the grid holds a
\* message and no card, otherwise renderCards("") appends the card of every
\* device in sorted order
renderCards(devices) ==
    IF Len(devices) = 0 THEN <<>> ELSE sortDevices(devices)

\* ---- how many tabs a handler run creates (for the bounds) -----------------
Room(n) == tabIdSeq + n <= MaxTabId

\* ---- the state machine ----------------------------------------------------
InitApp ==
    /\ tabIdSeq = 0
    /\ tabs = <<>>
    /\ activeTabId = 0
    /\ globalIpn = FALSE
    /\ heap = <<>>
    /\ tabList = <<>>
    /\ paneHost = <<>>
    /\ modalBusy = FALSE
    /\ modalHidden = TRUE
    /\ prompts = <<>>
    /\ stored = [d \in Devices |-> NoUser]
    /\ dragSrcId = 0
    /\ sessions = <<>>
    /\ tsStatus = "NoState"
    /\ loadingHidden = FALSE
    /\ loadingText = "wasm"
    /\ loginTimer = FALSE
    /\ buttonsWired = FALSE
    /\ newTabHandlers = 0
    /\ ipnEverRan = FALSE
    /\ timers = 0
    /\ logins = 0

Init ==
    /\ InitApp
    /\ directory = <<>>
    /\ response = <<>>
    /\ grid = <<>>
    /\ fetched = "idle"

\* ipn.run's notifyState callback
NotifyState(state) ==
    /\ (state = "Running" /\ tabs = <<>>) => Room(1)
    /\ Becomes(notifyState(Cur, state))

\* createIPN's panicHandler; the node may call it at any time
PanicHandler ==
    /\ TRUE
    /\ Becomes(panicHandler(Cur))

\* ipn.run's notifyPanicRecover callback; may arrive at any time
NotifyPanicRecover ==
    /\ TRUE
    /\ Becomes(notifyPanicRecover(Cur))

LoginTimerFired ==
    /\ timers > 0
    /\ logins < MaxLogins
    /\ Becomes(loginTimerFired(Cur))

\* click on the new-tab button
NewTabClick ==
    /\ newTabHandlers > 0
    /\ Room(newTabHandlers)
    /\ Becomes(newTabClick(Cur, newTabHandlers))

\* click on a tab's close button
CloseTab(id) ==
    /\ id \in Range(tabList)
    /\ (tabs = <<id>> /\ globalIpn) => Room(1)
    /\ Becomes(closeTab(Cur, id))

\* click on the close button of a tab whose session's close() throws
CloseTabThrows(id) ==
    /\ id \in Range(tabList)
    /\ heap[id].session # 0
    /\ (tabs = <<id>> /\ globalIpn) => Room(1)
    /\ Becomes(closeTab(CurThrowing, id))

\* a notification that tears down while the close() of the sessions throws
NotifyStateThrows(state) ==
    /\ state \in {"NeedsLogin", "NeedsMachineAuth", "Stopped"}
    /\ \E id \in Range(tabs) : heap[id].session # 0
    /\ Becomes(notifyState(CurThrowing, state))

\* click on a tab
ActivateTab(id) ==
    /\ id \in Range(tabList)
    /\ Becomes(activateTab(Cur, id))

\* a click event delivered to the tab element of a tab that has left the
\* registry: the element is detached, its listener is still registered
ActivateDetached(id) ==
    /\ id \in DOMAIN heap
    /\ id \notin Range(tabs)
    /\ Becomes(activateTab(Cur, id))

DragStart(id) ==
    /\ id \in Range(tabList)
    /\ Becomes(onDragStart(Cur, id))

Drop(id) ==
    /\ id \in Range(tabList)
    /\ Becomes(onDrop(Cur, id))

DragEnd ==
    /\ dragSrcId # 0
    /\ Becomes(onDragEnd(Cur))

\* the fetch of a picker settles
FetchDone(id) ==
    /\ id \in DOMAIN heap
    /\ heap[id].pane = "loading"
    /\ Becomes(fetchSettled(Cur, id))

\* click on the Connect button of a device card of tab id
CardClick(id, dev) ==
    /\ id \in Range(paneHost)
    /\ heap[id].pane = "cards"
    /\ Becomes(openSession(Cur, id, dev))

\* Connect / Enter in the username modal
PromptConfirm(v, sync) ==
    /\ prompts # <<>>
    /\ Trim(v) # NoUser => Len(sessions) + Len(prompts) <= MaxSessions
    /\ Becomes(onConnect(Cur, v, sync))

\* Cancel / Escape in the username modal
PromptCancel ==
    /\ prompts # <<>>
    /\ Becomes(onCancel(Cur))

\* runSSHSession's onError callback for session sid
OnError(sid) ==
    /\ sid \in DOMAIN sessions
    /\ Becomes(sessionCallback(Cur, sid))

\* runSSHSession's onDone callback for session sid
OnDone(sid) ==
    /\ sid \in DOMAIN sessions
    /\ Becomes(sessionCallback(Cur, sid))

TabIds == 1..MaxTabId

IpnActions ==
    \/ \E state \in IpnStates : NotifyState(state)
    \/ PanicHandler
    \/ NotifyPanicRecover
    \/ LoginTimerFired

TabActions ==
    \/ NewTabClick
    \/ \E id \in TabIds : CloseTab(id)
    \/ \E id \in TabIds : ActivateTab(id)

DragActions ==
    \/ \E id \in TabIds : DragStart(id)
    \/ \E id \in TabIds : Drop(id)
    \/ DragEnd

SessionActions ==
    \/ \E id \in TabIds : FetchDone(id)
    \/ \E id \in TabIds, dev \in Devices : CardClick(id, dev)
    \/ \E v \in Inputs, sync \in BOOLEAN : PromptConfirm(v, sync)
    \/ PromptCancel
    \/ \E sid \in 1..MaxSessions : OnError(sid)
    \/ \E sid \in 1..MaxSessions : OnDone(sid)

\* the whole program
Next == IpnActions \/ TabActions \/ DragActions \/ SessionActions

Spec == Init /\ [][Next]_vars

\* the tab registry under notifications, clicks and drags; no session is opened
NextTabs == IpnActions \/ TabActions \/ DragActions

SpecTabs == Init /\ [][NextTabs]_vars

\* the tab registry with activateTab called for every id a listener holds
NextActivate ==
    \/ NextTabs
    \/ \E id \in TabIds : ActivateDetached(id)

SpecActivate == Init /\ [][NextActivate]_vars

\* the notifications alone; an armed setTimeout(..., 0) callback runs unless it
\* is cleared first
NextLogin == IpnActions

SpecLogin == Init /\ [][NextLogin]_vars /\ WF_vars(LoginTimerFired)

\* the sessions of the tabs under notifications, new-tab and close clicks, with
\* at most MaxSessionTabs tabs ever created
FewTabs == tabIdSeq' <= MaxSessionTabs

SessNotifyState(state) == NotifyState(state) /\ FewTabs

SessNewTabClick == NewTabClick /\ FewTabs

SessCloseTab(id) == CloseTab(id) /\ FewTabs

NextSessions ==
    \/ SessionActions
    \/ \E state \in IpnStates : SessNotifyState(state)
    \/ SessNewTabClick
    \/ \E id \in TabIds : SessCloseTab(id)

SpecSessions == Init /\ [][NextSessions]_vars

\* the records data.devices may hold; the id of a record is its position
DeviceShapes == [name : Names, sshEnabled : BOOLEAN, recent : BOOLEAN]

withIds(shapes) ==
    [i \in 1..Len(shapes) |->
        [id |-> i, name |-> shapes[i].name,
         sshEnabled |-> shapes[i].sshEnabled, recent |-> shapes[i].recent]]

Directories ==
    { withIds(shapes) : shapes \in UNION { [1..n -> DeviceShapes] : n \in 0..MaxDevices } }

InitPicker ==
    /\ InitApp
    /\ directory \in Directories
    /\ response = <<>>
    /\ grid = <<>>
    /\ fetched = "idle"

\* the worker answers GET /api/devices
HandleDevices ==
    /\ fetched = "idle"
    /\ response' = handleDevices(directory)
    /\ fetched' = "responded"
    /\ UNCHANGED << directory, grid >>
    /\ UNCHANGED appVars

\* loadPicker goes on after `devices = await resp.json()`
RenderPicker ==
    /\ fetched = "responded"
    /\ grid' = renderCards(response)
    /\ fetched' = "rendered"
    /\ UNCHANGED << directory, response >>
    /\ UNCHANGED appVars

\* one request for the device list, for every answer of the directory
NextPicker == HandleDevices \/ RenderPicker

SpecPicker == InitPicker /\ [][NextPicker]_vars

\* the sessions of the tabs when the close() of a session may throw
SessCloseTabThrows(id) == CloseTabThrows(id) /\ FewTabs

NextThrows ==
    \/ NextSessions
    \/ \E id \in TabIds : SessCloseTabThrows(id)
    \/ \E state \in IpnStates : NotifyStateThrows(state)

SpecThrows == Init /\ [][NextThrows]_vars

\* the sessions of the tabs under every teardown path: SpecSessions together
\* with the two panic notifications
NextTeardown ==
    \/ NextSessions
    \/ PanicHandler
    \/ NotifyPanicRecover

SpecTeardown == Init /\ [][NextTeardown]_vars

\* ---- vocabulary of the properties ------------------------------------------
SessionIds == DOMAIN sessions

\* a session that was opened and has neither ended (onError/onDone delivered)
\* nor been closed
Open(sid) == ~sessions[sid].closed /\ ~sessions[sid].ended

OpenOn(id) == { sid \in SessionIds : sessions[sid].tab = id /\ Open(sid) }

\* the loading overlay shows the text of a panic
Fatal == ~loadingHidden /\ loadingText \in {"crashed", "panic"}

\* a directory record that has a name which is not empty
Named(d) == d.name.type = "string" /\ d.name.chars # <<>>

\* a notification that schedules the deferred login
NeedsAuth == \E state \in {"NeedsLogin", "NeedsMachineAuth"} : NotifyState(state)

\* a step of one of the handlers that call clearAllTabs
Teardown ==
    \/ \E state \in {"NeedsLogin", "NeedsMachineAuth", "Stopped"} : NotifyState(state)
    \/ PanicHandler
    \/ NotifyPanicRecover

\* ---- C1 ---------------------------------------------------------------------
\* C1: after any sequence of createTab, closeTab, clearAll and drag reorder the
\* order of the tabs array equals the order of the tab elements in #tab-list.
\* Stated as the claim states it; onDrop breaks it for a source left of the
\* destination.
C1_OrderSync == tabs = tabList

\* ---- C2 ---------------------------------------------------------------------
\* C2: whenever the last notified state is not Running, the tabs array is empty.
\* Stated as the claim states it; notifyState tears nothing down on Starting,
\* NoState and InUseOtherUser, and the new-tab button stays wired.
C2_EmptyUnlessRunning == tsStatus # "Running" => tabs = <<>>

\* ---- C3 ---------------------------------------------------------------------
\* C3: closeTab on the last remaining tab leaves exactly one, new, tab when the
\* state is Running and no tab when it is not.  Stated as the claim states it;
\* closeTab tests globalIpn, which is set on the first Running and never reset.
C3_ReplacementOnlyWhileRunning ==
    [][\A id \in TabIds :
         (CloseTab(id) /\ tabs = <<id>>) =>
            IF tsStatus = "Running"
            THEN Len(tabs') = 1 /\ tabs'[1] # id
            ELSE tabs' = <<>>]_vars

\* ---- C4 ---------------------------------------------------------------------
\* C4: every tab of the registry has at most one session that was opened and
\* has neither ended nor been closed.  Stated as the claim states it; a late
\* callback of an earlier session of the tab detaches the current one.
C4_AtMostOneOpenSession ==
    \A id \in Range(tabs) : Cardinality(OpenOn(id)) <= 1

\* witness of C5: a prompt is outstanding for a tab whose cards can be clicked
\* again, and another tab that holds a session shows cards that can be clicked
C5_Witness ==
    \E a, b \in Range(tabs) :
        /\ prompts = <<[tab |-> a, dev |-> "d1"]>>
        /\ heap[a].pane = "cards"
        /\ heap[b].session # 0
        /\ heap[b].pane = "cards"

\* ---- C5 ---------------------------------------------------------------------
\* C5: an openSession call on a tab that holds a session, or made while the
\* prompt of an earlier call is outstanding, calls runSSHSession not at all and
\* leaves the tab's session, the outstanding prompt and every tab as they are;
\* and the resumption of a call after its prompt calls runSSHSession at most
\* once and leaves the session of every tab that holds one in place.
C5_OneSessionPerOpen ==
    [][/\ \A id \in TabIds, dev \in Devices :
            (CardClick(id, dev) /\ (heap[id].session # 0 \/ prompts # <<>>)) =>
                /\ sessions' = sessions
                /\ prompts' = prompts
                /\ heap' = heap
       /\ \A v \in Inputs, sync \in BOOLEAN :
            PromptConfirm(v, sync) =>
                /\ Len(sessions') <= Len(sessions) + 1
                /\ \A id \in DOMAIN heap :
                     heap[id].session # 0 => heap'[id].session = heap[id].session
      ]_vars

\* witness of C6: a session was closed by closeTab (no teardown has run: the
\* loading text is still the initial one) and its tab has left the registry
C6_Witness ==
    /\ loadingText = "wasm"
    /\ \E sid \in SessionIds :
         /\ sessions[sid].closed
         /\ sessions[sid].tab \notin Range(tabs)
         /\ heap[sessions[sid].tab].session = 0

\* ---- C6 ---------------------------------------------------------------------
\* C6: closeTab on a tab that holds a session invokes the session's close
\* while the tab is still in the tabs array, in #tab-list and in #pane-host,
\* then removes the tab from all three; afterwards the tab object holds no
\* session.
C6_CloseBeforeRemove ==
    [][\A id \in TabIds :
         (CloseTab(id) /\ heap[id].session # 0) =>
            LET sid == heap[id].session
            IN  /\ sessions'[sid].closed
                /\ sessions'[sid].attached
                /\ heap'[id].session = 0
                /\ id \notin Range(tabs')
                /\ id \notin Range(tabList')
                /\ id \notin Range(paneHost')
      ]_vars

\* ---- C7 ---------------------------------------------------------------------
\* C7: every open session belongs to a tab that is in the registry.  Stated as
\* the claim states it; openSession resumes after its prompt without looking
\* whether its tab is still in the tabs array.
C7_NoOrphanSession ==
    \A sid \in SessionIds : Open(sid) => sessions[sid].tab \in Range(tabs)

\* ---- C8 ---------------------------------------------------------------------
\* C8: while the last notified state is not Running no tab of the registry
\* holds an open session.  Stated as the claim states it; notifyState closes
\* nothing on Starting, NoState and InUseOtherUser, and openSession resumes
\* without looking at the state.
C8_NoSessionUnlessRunning ==
    tsStatus # "Running" =>
        \A id \in Range(tabs) : heap[id].session = 0 \/ ~Open(heap[id].session)

\* witness of C9: a prompt is outstanding and another tab without a session
\* shows cards, so that a second promptUsername call can be made
C9_Witness ==
    \E a, b \in Range(tabs) :
        /\ a # b
        /\ prompts = <<[tab |-> a, dev |-> "d1"]>>
        /\ heap[b].pane = "cards"
        /\ heap[b].session = 0

\* ---- C9 ---------------------------------------------------------------------
\* C9: at most one prompt is outstanding, and the gate and the modal are taken
\* exactly while it is; a promptUsername call made while a prompt is
\* outstanding changes nothing (it resolves null); the outstanding prompt
\* still resolves: a confirm hands the trimmed input to its openSession call,
\* which opens the session of its tab for that user, a cancel opens nothing.
C9_SingleFlightPrompt ==
    /\ [](/\ Len(prompts) <= 1
          /\ modalBusy <=> prompts # <<>>
          /\ modalHidden <=> ~modalBusy)
    /\ [][/\ \A id \in TabIds, dev \in Devices :
               (CardClick(id, dev) /\ modalBusy) =>
                   UNCHANGED <<modalBusy, modalHidden, prompts, sessions, heap, stored>>
          /\ \A v \in Inputs, sync \in BOOLEAN :
               (PromptConfirm(v, sync) /\ Trim(v) # NoUser) =>
                   /\ prompts' = <<>>
                   /\ ~modalBusy'
                   /\ Len(sessions') = Len(sessions) + 1
                   /\ sessions'[Len(sessions')].tab = prompts[1].tab
                   /\ sessions'[Len(sessions')].user = Trim(v)
          /\ PromptCancel =>
                   /\ prompts' = <<>>
                   /\ ~modalBusy'
                   /\ sessions' = sessions
         ]_vars

\* witness of C10: after a teardown, with ids retired, a tab is in the registry
C10_Witness ==
    /\ tabs # <<>>
    /\ loadingText = "auth"
    /\ tabIdSeq > Len(tabs)
    /\ \E id \in DOMAIN heap : id \notin Range(tabs)

\* ---- C10 --------------------------------------------------------------------
\* C10: the ids of the tabs in the registry are pairwise distinct, and every
\* tab that enters the registry has an id greater than the id of every tab
\* object created before it (so no id is used again after closeTab or
\* clearAllTabs).
C10_FreshIds ==
    /\ [](\A i, j \in 1..Len(tabs) : i # j => tabs[i] # tabs[j])
    /\ [][\A id \in Range(tabs') \ Range(tabs) :
            \A old \in DOMAIN heap : id > old]_vars

\* witness of C11: Running was notified on a registry that a NeedsLogin or
\* NeedsMachineAuth teardown had emptied, and the registry holds one new tab
C11_Witness ==
    /\ tsStatus = "Running"
    /\ loadingText = "auth"
    /\ Len(tabs) = 1
    /\ tabs[1] > 1

\* ---- C11 --------------------------------------------------------------------
\* C11: a Running notification on an empty registry creates exactly one tab,
\* which is then the registry's only tab, and on a non-empty registry creates
\* none and leaves the registry as it is (so a repeated Running adds no tab);
\* a NeedsLogin notification leaves no tab.
C11_RunningCreatesOneTab ==
    [][/\ NotifyState("Running") =>
            IF tabs = <<>>
            THEN /\ tabs' = <<tabIdSeq + 1>>
                 /\ tabIdSeq' = tabIdSeq + 1
                 /\ DOMAIN heap' = DOMAIN heap \cup {tabIdSeq + 1}
            ELSE /\ tabs' = tabs
                 /\ tabIdSeq' = tabIdSeq
                 /\ DOMAIN heap' = DOMAIN heap
       /\ NotifyState("NeedsLogin") => tabs' = <<>>
      ]_vars

\* witness of C12: Running was reached, then a panic notification tore down a
\* registry in which a tab held a session
C12_Witness ==
    /\ globalIpn
    /\ loadingText = "panic"
    /\ tabs = <<>>
    /\ \E sid \in SessionIds : sessions[sid].closed /\ sessions[sid].attached

\* ---- C12 --------------------------------------------------------------------
\* C12: a teardown (NeedsLogin, NeedsMachineAuth, Stopped, either panic
\* notification) invokes close on the session held by every tab of the
\* registry while the tab is still there, leaves the tab without a session,
\* the registry, #tab-list and #pane-host empty and no tab active, and creates
\* no tab, whether or not Running was reached before.
C12_TeardownClosesAll ==
    [][Teardown =>
         /\ tabs' = <<>>
         /\ tabList' = <<>>
         /\ paneHost' = <<>>
         /\ activeTabId' = 0
         /\ tabIdSeq' = tabIdSeq
         /\ DOMAIN heap' = DOMAIN heap
         /\ Len(sessions') = Len(sessions)
         /\ \A id \in Range(tabs) :
               heap[id].session # 0 =>
                   /\ sessions'[heap[id].session].closed
                   /\ sessions'[heap[id].session].attached
                   /\ heap'[id].session = 0
      ]_vars

\* ---- C13 --------------------------------------------------------------------
\* C13: an onError or onDone callback of a session for which a callback was
\* already delivered hands nothing back: it leaves every tab, and so the pane
\* and the session the tab holds by then, as they are.  Stated as the claim
\* states it; the callbacks test only the closed flag, which close() alone sets.
C13_EndsOnce ==
    [][\A sid \in 1..MaxSessions :
         ((OnError(sid) \/ OnDone(sid)) /\ sessions[sid].ended) => heap' = heap
      ]_vars

\* witness of C14: the first of three tabs was dragged onto the third
C14_Witness ==
    /\ tabs = <<2, 3, 1>>
    /\ dragSrcId = 1

\* ---- C14 --------------------------------------------------------------------
\* C14: a drop of a dragged tab on another tab, both in the tabs array, puts
\* the dragged tab at the index the other tab had in the array before the
\* drop and keeps the order of all other tabs (dragging the first of
\* <<1, 2, 3>> onto the third gives <<2, 3, 1>>); a drop with no drag source,
\* with a source that has left the array, or on the source itself leaves the
\* array and #tab-list as they are.
C14_ReorderMovesToDestIndex ==
    [][\A id \in TabIds :
         Drop(id) =>
            LET srcIdx == IndexOf(tabs, dragSrcId)
                dstIdx == IndexOf(tabs, id)
            IN  /\ IF dragSrcId # id /\ srcIdx # 0 /\ dstIdx # 0
                   THEN /\ Len(tabs') = Len(tabs)
                        /\ tabs'[dstIdx] = dragSrcId
                        /\ Detach(tabs', dragSrcId) = Detach(tabs, dragSrcId)
                   ELSE /\ tabs' = tabs
                        /\ tabList' = tabList
                /\ (tabs = <<1, 2, 3>> /\ dragSrcId = 1 /\ id = 3) => tabs' = <<2, 3, 1>>
      ]_vars

\* ---- C15 --------------------------------------------------------------------
\* C15: a panic notification leaves the registry empty and the overlay showing
\* the panic text, and from then on no step removes that text or creates a
\* tab.  Stated as the claim states it; nothing records that a panic was
\* notified, so notifyState and the new-tab button go on as before.
C15_PanicIsFinal ==
    [][/\ (PanicHandler \/ NotifyPanicRecover) => (Fatal' /\ tabs' = <<>>)
       /\ Fatal => (Fatal' /\ tabIdSeq' = tabIdSeq)
      ]_vars

\* witness of C16: ipn.login() was called once, and a notification delivered
\* after that has armed the timer again
C16_Witness ==
    /\ tsStatus \in {"NeedsLogin", "NeedsMachineAuth"}
    /\ logins = 1
    /\ timers = 1

\* ---- C16 --------------------------------------------------------------------
\* C16: no notifyState call invokes ipn.login(); at most one login timer is
\* armed at any instant, and loginTimer is set exactly while one is; a
\* NeedsLogin or NeedsMachineAuth notification leaves exactly one timer armed
\* however many came before it; ipn.login() is invoked only by the timer
\* callback, once per firing, which leaves no timer armed; and an armed timer
\* fires or is cleared.
C16_LoginDebounced ==
    /\ [](timers <= 1 /\ (loginTimer <=> timers = 1))
    /\ [][/\ \A state \in IpnStates : NotifyState(state) => logins' = logins
          /\ NeedsAuth => timers' = 1
          /\ logins' # logins =>
                /\ LoginTimerFired
                /\ logins' = logins + 1
                /\ timers' = 0
         ]_vars
    /\ ((timers = 1 /\ logins < MaxLogins) ~> (timers = 0))

\* witness of C17: after a NeedsLogin or NeedsMachineAuth notification Running
\* was notified before the timer had ever fired
C17_Witness ==
    /\ tsStatus = "Running"
    /\ loadingText = "auth"
    /\ logins = 0
    /\ timers = 0

\* ---- C17 --------------------------------------------------------------------
\* C17: a Running notification leaves no login timer armed and invokes no
\* login; while no timer is armed ipn.login() is not invoked, and only a
\* NeedsLogin or NeedsMachineAuth notification arms a timer.
C17_RunningCancelsLogin ==
    [][/\ NotifyState("Running") =>
            /\ timers' = 0
            /\ ~loginTimer'
            /\ logins' = logins
       /\ timers = 0 => logins' = logins
       /\ (timers = 0 /\ timers' > 0) => NeedsAuth
      ]_vars

\* witness of C18: the directory answered with three records, a named record
\* without SSH first, an unnamed one among them, and the picker has rendered
C18_Witness ==
    /\ fetched = "rendered"
    /\ Len(directory) = 3
    /\ directory[1].name = Str(<<"b", ".", "t">>) /\ ~directory[1].sshEnabled
    /\ directory[2].name = Str(<<>>)
    /\ directory[3].name = Str(<<"a", ".", "t">>) /\ directory[3].sshEnabled
    /\ Len(grid) = 2

\* ---- C18 --------------------------------------------------------------------
\* C18: once the picker has rendered, its grid holds exactly one card for
\* every directory record whose name is present and not empty, with that
\* record's name, and no card for a record whose name is empty or missing;
\* for the records a.t (SSH, online), b.t (no SSH, online) and one unnamed
\* record, in any order, the cards are a, then b.
C18_UnnamedExcluded ==
    fetched = "rendered" =>
        /\ \A i \in 1..Len(directory) :
               Cardinality({ k \in 1..Len(grid) : grid[k].id = i }) =
                   IF Named(directory[i]) THEN 1 ELSE 0
        /\ \A k \in 1..Len(grid) :
               /\ grid[k].id \in 1..Len(directory)
               /\ Str(grid[k].name) = directory[grid[k].id].name
        /\ ( /\ Len(directory) = 3
             /\ \E i, j, u \in 1..3 :
                   /\ directory[i] = [id |-> i, name |-> Str(<<"a", ".", "t">>),
                                      sshEnabled |-> TRUE, recent |-> TRUE]
                   /\ directory[j] = [id |-> j, name |-> Str(<<"b", ".", "t">>),
                                      sshEnabled |-> FALSE, recent |-> TRUE]
                   /\ ~Named(directory[u]) )
            => ( /\ Len(grid) = 2
                 /\ grid[1].displayName = <<"a">>
                 /\ grid[2].displayName = <<"b">> )

\* witness of C19: Running was notified, a NeedsLogin or NeedsMachineAuth
\* teardown followed, Running was notified again, and the new-tab button has
\* added a tab
C19_Witness ==
    /\ tsStatus = "Running"
    /\ loadingText = "auth"
    /\ tabs = <<2, 3>>
    /\ newTabHandlers = 1

\* ---- C19 --------------------------------------------------------------------
\* C19: the block that registers the new-tab and logout listeners has run at
\* most once, and exactly once as soon as Running was notified, however many
\* Running notifications were delivered; a click on the new-tab button
\* creates exactly one tab and appends it to the registry.
C19_WiredOnce ==
    /\ [](/\ newTabHandlers <= 1
          /\ buttonsWired <=> newTabHandlers = 1
          /\ buttonsWired <=> ipnEverRan)
    /\ [][NewTabClick =>
             /\ tabIdSeq' = tabIdSeq + 1
             /\ tabs' = Append(tabs, tabIdSeq + 1)
             /\ DOMAIN heap' = DOMAIN heap \cup {tabIdSeq + 1}
         ]_vars

\* witness of C20: Stopped was notified after Running had been, and the
\* overlay shows the unexpected-stop text
C20_Witness ==
    /\ tsStatus = "Stopped"
    /\ ipnEverRan
    /\ ~loadingHidden
    /\ loadingText = "stopped"

\* ---- C20 --------------------------------------------------------------------
\* C20: a Stopped notification shows the unexpected-stop text if ipnEverRan
\* is set and leaves the overlay as it is if not; ipnEverRan is set by a
\* Running notification, by nothing else, and is never reset.
C20_StoppedAfterRunning ==
    [][/\ NotifyState("Stopped") =>
            IF ipnEverRan
            THEN ~loadingHidden' /\ loadingText' = "stopped"
            ELSE loadingHidden' = loadingHidden /\ loadingText' = loadingText
       /\ NotifyState("Running") => ipnEverRan'
       /\ ipnEverRan => ipnEverRan'
       /\ (~ipnEverRan /\ ipnEverRan') => NotifyState("Running")
      ]_vars

\* ---- C21 --------------------------------------------------------------------
\* C21: activateTab with the id of a tab of the registry makes that id the
\* active one and leaves exactly that tab marked active; activateTab with an
\* id that is not in the registry changes neither activeTabId nor any tab's
\* active mark.  Stated as the claim states it; activateTab assigns
\* activeTabId and toggles every mark before it looks the tab up.
C21_ActivateFrame ==
    [][\A id \in TabIds :
         /\ ActivateTab(id) =>
                /\ activeTabId' = id
                /\ \A t \in Range(tabs') : heap'[t].active <=> (t = id)
         /\ ActivateDetached(id) =>
                /\ activeTabId' = activeTabId
                /\ \A t \in Range(tabs) : heap'[t].active = heap[t].active
      ]_vars

\* witness of C22: the last of three tabs was closed while it was active (a
\* removed tab keeps its mark) and the tab before it is active now
C22_Witness ==
    /\ tabs = <<1, 2>>
    /\ activeTabId = 2
    /\ 3 \in DOMAIN heap
    /\ heap[3].active

\* ---- C22 --------------------------------------------------------------------
\* C22: closeTab on a tab of a registry that holds other tabs removes it; if
\* it was the active tab, the tab that is afterwards at its former index, or
\* the last tab when that index is past the end, becomes the active tab and
\* the only one marked active; if it was not, activeTabId and the marks of the
\* remaining tabs are unchanged.
C22_CloseActivatesNearest ==
    [][\A id \in TabIds :
         (CloseTab(id) /\ id \in Range(tabs) /\ Len(tabs) > 1) =>
            LET idx  == IndexOf(tabs, id)
                rest == RemoveAt(tabs, idx)
                next == IF idx <= Len(rest) THEN rest[idx] ELSE rest[Len(rest)]
            IN  /\ tabs' = rest
                /\ IF activeTabId = id
                   THEN /\ activeTabId' = next
                        /\ \A t \in Range(rest) : heap'[t].active <=> (t = next)
                   ELSE /\ activeTabId' = activeTabId
                        /\ \A t \in Range(rest) : heap'[t].active = heap[t].active
      ]_vars

\* witness of C23: a prompt is outstanding, so that it can be cancelled, for a
\* tab in the picker and a device that has a persisted login name, while
\* another tab shows cards whose click finds the gate taken
C23_Witness ==
    /\ Len(prompts) = 1
    /\ stored[prompts[1].dev] # NoUser
    /\ heap[prompts[1].tab].session = 0
    /\ \E b \in Range(tabs) : b # prompts[1].tab /\ heap[b].pane = "cards"

\* ---- C23 --------------------------------------------------------------------
\* C23: when the prompt of an openSession call is cancelled, and when an
\* openSession call finds the gate taken, runSSHSession is not called, and
\* the label, the pane and the session field of every tab and the persisted
\* login names are unchanged.
C23_CancelKeepsPicker ==
    [][/\ PromptCancel =>
            /\ sessions' = sessions
            /\ heap' = heap
            /\ stored' = stored
            /\ heap'[prompts[1].tab].session = 0
       /\ \A id \in TabIds, dev \in Devices :
            (CardClick(id, dev) /\ modalBusy) =>
                /\ sessions' = sessions
                /\ heap' = heap
                /\ stored' = stored
      ]_vars

\* witness of C24: the session of one tab has ended through a callback and
\* the tab is back in its picker, while another tab holds an open session
C24_Witness ==
    \E sid \in SessionIds, b \in Range(tabs) :
        /\ sessions[sid].ended
        /\ ~sessions[sid].closed
        /\ sessions[sid].tab \in Range(tabs)
        /\ heap[sessions[sid].tab].session = 0
        /\ b # sessions[sid].tab
        /\ heap[b].session # 0
        /\ Open(heap[b].session)

\* ---- C24 --------------------------------------------------------------------
\* C24: an onError callback of a session leaves the tabs array, #tab-list,
\* #pane-host and activeTabId as they are, changes no tab object other than
\* the session's own tab and no record of another session; if the session
\* was not closed through its tab, its tab holds no session afterwards and
\* shows a fresh picker.
C24_OnErrorIsLocal ==
    [][\A sid \in 1..MaxSessions :
         OnError(sid) =>
            /\ tabs' = tabs
            /\ tabList' = tabList
            /\ paneHost' = paneHost
            /\ activeTabId' = activeTabId
            /\ DOMAIN heap' = DOMAIN heap
            /\ \A t \in DOMAIN heap : t # sessions[sid].tab => heap'[t] = heap[t]
            /\ Len(sessions') = Len(sessions)
            /\ \A o \in SessionIds : o # sid => sessions'[o] = sessions[o]
            /\ ~sessions[sid].closed =>
                   /\ heap'[sessions[sid].tab].session = 0
                   /\ heap'[sessions[sid].tab].pane = "loading"
      ]_vars

\* witness of C25: the close() of a session has thrown, the session counts
\* as closed, and its tab has left the registry without it
C25_Witness ==
    \E sid \in SessionIds :
        /\ sessions[sid].threw
        /\ sessions[sid].closed
        /\ sessions[sid].tab \notin Range(tabs)
        /\ heap[sessions[sid].tab].session = 0

\* ---- C25 --------------------------------------------------------------------
\* C25: when the close() of its session throws, closeTab still marks the
\* session closed, detaches it from the tab and removes the tab from the tabs
\* array, #tab-list and #pane-host; and a tearing-down notification during
\* which every close() throws still closes and detaches the session of every
\* tab, empties the three and runs to its end.
C25_CloseFailureSwallowed ==
    [][/\ \A id \in TabIds :
            CloseTabThrows(id) =>
                /\ sessions'[heap[id].session].threw
                /\ sessions'[heap[id].session].closed
                /\ heap'[id].session = 0
                /\ id \notin Range(tabs')
                /\ id \notin Range(tabList')
                /\ id \notin Range(paneHost')
       /\ \A state \in IpnStates :
            NotifyStateThrows(state) =>
                /\ tabs' = <<>>
                /\ tabList' = <<>>
                /\ paneHost' = <<>>
                /\ activeTabId' = 0
                /\ ~loadingHidden'
                /\ \A id \in Range(tabs) :
                      heap[id].session # 0 =>
                          /\ sessions'[heap[id].session].threw
                          /\ sessions'[heap[id].session].closed
                          /\ heap'[id].session = 0
      ]_vars

\* ---- C26 --------------------------------------------------------------------
\* C26: no tab holds a session for which onError or onDone was delivered, so
\* that the guard of a later openSession on the tab lets it through.  Stated
\* as the claim states it; tab.session is assigned after runSSHSession has
\* returned, over what a callback delivered during the call had set.
C26_TabReusableAfterEnd ==
    \A id \in DOMAIN heap :
        heap[id].session # 0 => ~sessions[heap[id].session].ended

\* witness of C27: a prompt was confirmed (a session was opened), the gate
\* was released, and a later call has opened the prompt again
C27_Witness ==
    /\ Len(sessions) >= 1
    /\ Len(prompts) = 1
    /\ modalBusy
    /\ ~modalHidden

\* ---- C27 --------------------------------------------------------------------
\* C27: modalBusy is set exactly while a prompt is outstanding; a confirm
\* with a login name and a cancel leave it released; and an openSession call
\* on a tab without a session made while no prompt is outstanding opens the
\* prompt for its tab and device.
C27_GateHeldWhilePrompting ==
    /\ [](modalBusy <=> prompts # <<>>)
    /\ [][/\ \A v \in Inputs, sync \in BOOLEAN :
               (PromptConfirm(v, sync) /\ Trim(v) # NoUser) => ~modalBusy'
          /\ PromptCancel => ~modalBusy'
          /\ \A id \in TabIds, dev \in Devices :
               (CardClick(id, dev) /\ prompts = <<>> /\ heap[id].session = 0) =>
                   /\ prompts' = <<[tab |-> id, dev |-> dev]>>
                   /\ modalBusy'
                   /\ ~modalHidden'
         ]_vars

\* witness of C28: a prompt is outstanding before any session was opened, so
\* that Connect can be pressed on an input that is empty or white space
C28_Witness ==
    /\ Len(prompts) = 1
    /\ sessions = <<>>
    /\ prompts[1].tab \in Range(tabs)
    /\ stored[prompts[1].dev] = NoUser

\* ---- C28 --------------------------------------------------------------------
\* C28: Connect or Enter on an input that is empty or holds only white space
\* leaves the prompt outstanding, the gate held and the modal shown, opens no
\* session and changes no tab and no persisted login name; and every session
\* runSSHSession was called for has a login name that is not empty and has
\* no white space around it.
C28_EmptyNameNotPropagated ==
    /\ [](\A sid \in SessionIds :
             sessions[sid].user # NoUser /\ Trim(sessions[sid].user) = sessions[sid].user)
    /\ [][\A v \in Inputs, sync \in BOOLEAN :
             (PromptConfirm(v, sync) /\ Trim(v) = NoUser) =>
                 /\ prompts' = prompts
                 /\ prompts' # <<>>
                 /\ modalBusy' /\ ~modalHidden'
                 /\ sessions' = sessions
                 /\ heap' = heap
                 /\ stored' = stored
         ]_vars

\* witness of C29: a session was closed through its tab while the tab showed
\* its terminal, and a callback of the session was delivered after that (a
\* callback before the close would have replaced the terminal by a picker)
C29_Witness ==
    \E sid \in SessionIds :
        /\ sessions[sid].closed
        /\ sessions[sid].ended
        /\ heap[sessions[sid].tab].pane = "terminal"

\* ---- C29 --------------------------------------------------------------------
\* C29: an onError or onDone callback of a session that was closed through
\* its tab (by closeTab or by a teardown) changes no tab object, so no session
\* field, label or pane, and neither the registry, the DOM lists, the active
\* tab, the modal nor any other session.
C29_CallbackAfterCloseIsInert ==
    [][\A sid \in 1..MaxSessions :
         ((OnError(sid) \/ OnDone(sid)) /\ sessions[sid].closed) =>
            /\ heap' = heap
            /\ UNCHANGED << tabs, tabList, paneHost, activeTabId, tabIdSeq,
                            prompts, modalBusy, modalHidden, stored >>
            /\ \A o \in SessionIds : o # sid => sessions'[o] = sessions[o]
            /\ sessions'[sid].closed
      ]_vars

\* witness of C30: after a teardown the registry holds several tabs again, a
\* drag is under way, the array has been reordered against #tab-list, and the
\* active tab is not the one created last
C30_Witness ==
    /\ loadingText = "auth"
    /\ Len(tabs) >= 2
    /\ dragSrcId # 0
    /\ tabs # tabList
    /\ activeTabId \in Range(tabs)
    /\ activeTabId # tabIdSeq

\* ---- C30 --------------------------------------------------------------------
\* C30: whenever the registry is not empty, activeTabId is the id of a tab of
\* the registry and that tab is the only one marked active; and every
\* teardown leaves activeTabId null.
C30_OneActiveTab ==
    /\ [](tabs # <<>> =>
             /\ activeTabId \in Range(tabs)
             /\ \A t \in Range(tabs) : heap[t].active <=> (t = activeTabId))
    /\ [][Teardown => activeTabId' = 0]_vars

====
